---- MODULE Spec2Model ----
(***************************************************************************)
(* Model of app.py, a Streamlit page that removes revoked IP addresses     *)
(* from an uploaded allow-list, renders an audit report and appends a row  *)
(* to a SQLite audit trail.                                                *)
(*                                                                         *)
(* Text is modelled as a sequence of one-character strings, so that        *)
(* splitting, stripping, sorting and joining are computed as Python        *)
(* computes them.  A set of addresses is a set of such sequences.          *)
(***************************************************************************)
EXTENDS Integers, Sequences, FiniteSets, TLC

(***************************************************************************)
(* Characters                                                              *)
(***************************************************************************)
NL == "\n"
CR == "\r"
TAB == "\t"
SP == " "
COMMA == ","

\* Code point of a character: the order sorted() compares strings by.
Ord(c) ==
    CASE c = TAB -> 9
      [] c = NL -> 10
      [] c = CR -> 13
      [] c = SP -> 32
      [] c = "%" -> 37
      [] c = "," -> 44
      [] c = "." -> 46
      [] c = "/" -> 47
      [] c = "0" -> 48
      [] c = "1" -> 49
      [] c = "2" -> 50
      [] c = "3" -> 51
      [] c = "4" -> 52
      [] c = "5" -> 53
      [] c = "6" -> 54
      [] c = "7" -> 55
      [] c = "8" -> 56
      [] c = "9" -> 57
      [] c = ":" -> 58
      [] c = "_" -> 95
      [] c = "a" -> 97
      [] c = "b" -> 98
      [] c = "c" -> 99
      [] c = "d" -> 100
      [] c = "e" -> 101
      [] c = "f" -> 102
      [] c = "p" -> 112
      [] c = "t" -> 116
      [] c = "x" -> 120

\* The characters str.strip() removes and that occur in the modelled texts.
IsSpace(c) == c \in {SP, TAB, NL, CR}

\* str.strip(): drop leading and trailing whitespace.
RECURSIVE LStrip(_)
LStrip(s) ==
    IF s # <<>> /\ IsSpace(Head(s)) THEN LStrip(Tail(s)) ELSE s

RECURSIVE RStrip(_)
RStrip(s) ==
    IF s # <<>> /\ IsSpace(s[Len(s)]) THEN RStrip(SubSeq(s, 1, Len(s) - 1)) ELSE s

Strip(s) == RStrip(LStrip(s))

\* str.split(d) for a one-character separator d: every occurrence cuts, and
\* empty pieces are kept.
RECURSIVE SplitFrom(_, _, _, _, _)
SplitFrom(s, d, i, cur, acc) ==
    IF i > Len(s) THEN Append(acc, cur)
    ELSE IF s[i] = d THEN SplitFrom(s, d, i + 1, <<>>, Append(acc, cur))
    ELSE SplitFrom(s, d, i + 1, Append(cur, s[i]), acc)

Split(s, d) == SplitFrom(s, d, 1, <<>>, <<>>)

\* str.splitlines(): cut at \n, \r and \r\n; no empty last piece.
RECURSIVE SplitLinesFrom(_, _, _, _)
SplitLinesFrom(s, i, cur, acc) ==
    IF i > Len(s) THEN (IF cur = <<>> THEN acc ELSE Append(acc, cur))
    ELSE IF s[i] = CR /\ i < Len(s) /\ s[i + 1] = NL
         THEN SplitLinesFrom(s, i + 2, <<>>, Append(acc, cur))
    ELSE IF s[i] \in {NL, CR}
         THEN SplitLinesFrom(s, i + 1, <<>>, Append(acc, cur))
    ELSE SplitLinesFrom(s, i + 1, Append(cur, s[i]), acc)

SplitLines(s) == SplitLinesFrom(s, 1, <<>>, <<>>)

\* re.split(r'[,\n\r]+', s): cut at every maximal run of separators.
IsRequestSep(c) == c \in {COMMA, NL, CR}

RECURSIVE ReSplitFrom(_, _, _, _)
ReSplitFrom(s, i, cur, acc) ==
    IF i > Len(s) THEN Append(acc, cur)
    ELSE IF IsRequestSep(s[i])
         THEN IF i > 1 /\ IsRequestSep(s[i - 1])
              THEN ReSplitFrom(s, i + 1, cur, acc)
              ELSE ReSplitFrom(s, i + 1, <<>>, Append(acc, cur))
    ELSE ReSplitFrom(s, i + 1, Append(cur, s[i]), acc)

ReSplit(s) == ReSplitFrom(s, 1, <<>>, <<>>)

\* Python's order on strings: by code point, a proper prefix first.
RECURSIVE StrLess(_, _)
StrLess(a, b) ==
    IF b = <<>> THEN FALSE
    ELSE IF a = <<>> THEN TRUE
    ELSE IF Head(a) = Head(b) THEN StrLess(Tail(a), Tail(b))
    ELSE Ord(Head(a)) < Ord(Head(b))

\* sorted(S) for a set of strings.
RECURSIVE Sorted(_)
Sorted(S) ==
    IF S = {} THEN <<>>
    ELSE LET m == CHOOSE x \in S : \A y \in S \ {x} : StrLess(x, y)
         IN <<m>> \o Sorted(S \ {m})

\* sep.join(parts)
RECURSIVE Join(_, _)
Join(parts, sep) ==
    IF parts = <<>> THEN <<>>
    ELSE IF Len(parts) = 1 THEN parts[1]
    ELSE parts[1] \o sep \o Join(Tail(parts), sep)

Range(f) == {f[i] : i \in DOMAIN f}

(***************************************************************************)
(* is_valid_ip: ipaddress.ip_address(ip_string) succeeds, that is, the     *)
(* string parses as an IPv4Address or, failing that, as an IPv6Address.    *)
(***************************************************************************)
IsDigit(c) == c \in {"0", "1", "2", "3", "4", "5", "6", "7", "8", "9"}

IsHexDigit(c) == IsDigit(c) \/ c \in {"a", "b", "c", "d", "e", "f"}

Contains(s, c) == \E i \in DOMAIN s : s[i] = c

\* int(octet_str, 10) for a string of digits.
RECURSIVE DecimalValue(_)
DecimalValue(s) ==
    IF s = <<>> THEN 0
    ELSE 10 * DecimalValue(SubSeq(s, 1, Len(s) - 1)) + (Ord(s[Len(s)]) - Ord("0"))

\* IPv4Address._parse_octet does not raise.
IsOctet(o) ==
    /\ o # <<>>
    /\ \A i \in DOMAIN o : IsDigit(o[i])
    /\ Len(o) <= 3
    /\ (o = <<"0">> \/ o[1] # "0")
    /\ DecimalValue(o) <= 255

IsIPv4Octets(octets) ==
    /\ Len(octets) = 4
    /\ \A i \in DOMAIN octets : IsOctet(octets[i])

IsIPv4(s) == ~Contains(s, "/") /\ IsIPv4Octets(Split(s, "."))

\* IPv6Address._parse_hextet does not raise.
IsHextet(h) ==
    /\ h # <<>>
    /\ \A i \in DOMAIN h : IsHexDigit(h[i])
    /\ Len(h) <= 4

\* Positions strictly inside parts that hold an empty part: a '::'.
Skips(parts) == {i \in 2..(Len(parts) - 1) : parts[i] = <<>>}

\* The parts around the '::' at position k: parts_hi before it, parts_lo
\* after it, an empty first or last part allowed only next to the '::'.
IsIPv6AroundSkip(parts, k, hi, lo) ==
    /\ parts[1] = <<>> => hi = 0
    /\ parts[Len(parts)] = <<>> => lo = 0
    /\ 8 - (hi + lo) >= 1
    /\ \A i \in 1..hi : IsHextet(parts[i])
    /\ \A i \in (Len(parts) - lo + 1)..Len(parts) : IsHextet(parts[i])

IsIPv6WithSkip(parts, k) ==
    IsIPv6AroundSkip(parts, k,
                     IF parts[1] = <<>> THEN k - 2 ELSE k - 1,
                     IF parts[Len(parts)] = <<>> THEN Len(parts) - k - 1
                                                 ELSE Len(parts) - k)

\* The hextets of an address, an IPv4 suffix already replaced by two hextets.
IsIPv6Parts(parts) ==
    /\ Len(parts) <= 9
    /\ Cardinality(Skips(parts)) <= 1
    /\ IF Skips(parts) # {}
       THEN IsIPv6WithSkip(parts, CHOOSE i \in Skips(parts) : TRUE)
       ELSE /\ Len(parts) = 8
            /\ \A i \in DOMAIN parts : IsHextet(parts[i])

\* IPv6Address._ip_int_from_string on the text before the scope id, split
\* at the colons.
IsIPv6Split(parts) ==
    /\ Len(parts) >= 3
    /\ IF Contains(parts[Len(parts)], ".")
       THEN /\ IsIPv4(parts[Len(parts)])
            /\ IsIPv6Parts(SubSeq(parts, 1, Len(parts) - 1) \o << <<"0">>, <<"0">> >>)
       ELSE IsIPv6Parts(parts)

IsIPv6Body(s) == s # <<>> /\ IsIPv6Split(Split(s, ":"))

\* Position of the first '%' of s.
FirstPercent(s) ==
    CHOOSE i \in DOMAIN s : s[i] = "%" /\ \A j \in 1..(i - 1) : s[j] # "%"

\* IPv6Address._split_scope_id, for s with a '%' at k, and the parse of
\* what precedes it.
IsIPv6Scoped(s, k) ==
    /\ k < Len(s)
    /\ ~Contains(SubSeq(s, k + 1, Len(s)), "%")
    /\ IsIPv6Body(SubSeq(s, 1, k - 1))

IsIPv6(s) ==
    /\ ~Contains(s, "/")
    /\ IF Contains(s, "%") THEN IsIPv6Scoped(s, FirstPercent(s)) ELSE IsIPv6Body(s)

is_valid_ip(ip_string) == IsIPv4(ip_string) \/ IsIPv6(ip_string)

(***************************************************************************)
(* Logic and report functions                                              *)
(***************************************************************************)
\* TEXTS[..]["delimiter_values"]
delimiter_values == <<NL, COMMA, SP, TAB>>

\* list(TEXTS.keys())
Languages == <<"es", "en">>

get_ips_from_content(content, delimiter_value) ==
    LET raw_ips == IF delimiter_value = NL
                   THEN SplitLines(content)
                   ELSE Split(content, delimiter_value)
    IN {Strip(raw_ips[i]) : i \in DOMAIN raw_ips} \ {<<>>}

\* ips_to_keep with the file always read one address per line, whatever the
\* delimiter chosen.
ips_to_keep_by_line(content, remove_set, delimiter_value) ==
    get_ips_from_content(content, NL) \ remove_set

\* The set update_content serializes: original_ips - set(remove_set).
ips_to_keep(content, remove_set, delimiter_value) ==
    get_ips_from_content(content, delimiter_value) \ remove_set

update_content(content, remove_set, delimiter_value) ==
    Join(Sorted(ips_to_keep(content, remove_set, delimiter_value)), <<NL>>)

\* The labels R of generate_pdf_report that the tables use.
ReportLabels(language) ==
    IF language = "es"
    THEN [total_initial |-> "Total de IPs Iniciales:",
          total_removed |-> "Total de IPs Eliminadas:",
          total_final |-> "Total de IPs Finales:",
          ip_list_header |-> <<"IP Revocada", "Estado">>,
          status_removed |-> "REVOCADA (Coincidencia)",
          status_maintained |-> "Mantenida"]
    ELSE [total_initial |-> "Total Initial IPs:",
          total_removed |-> "Total Removed IPs:",
          total_final |-> "Total Final IPs:",
          ip_list_header |-> <<"Revoked IP", "Status">>,
          status_removed |-> "REVOKED (Match Found)",
          status_maintained |-> "Maintained"]

\* The cell that stands for an address in the detail table's placeholder row.
NotApplicable == <<"N", "/", "A">>

\* DetailRows without the row that stands for "nothing revoked".
DetailRowsNoPlaceholder(potential_removals, R) ==
    [i \in DOMAIN Sorted(potential_removals) |->
        <<Sorted(potential_removals)[i], R.status_removed>>]

\* The rows of the detail table below its header row.
DetailRows(potential_removals, R) ==
    LET ips == Sorted(potential_removals)
    IN [i \in DOMAIN ips |-> <<ips[i], R.status_removed>>]
       \o (IF potential_removals = {}
           THEN << <<NotApplicable, R.status_maintained>> >>
           ELSE <<>>)

\* The two tables of the report; the title, the generation date and the fixed
\* paragraphs carry none of the reconciliation result.
generate_pdf_report(original_ips, potential_removals, updated_ips, language) ==
    LET R == ReportLabels(language)
    IN [summary_data |-> << <<R.total_initial, Cardinality(original_ips)>>,
                            <<R.total_removed, Cardinality(potential_removals)>>,
                            <<R.total_final, Cardinality(updated_ips)>> >>,
        ip_list_header |-> R.ip_list_header,
        ip_data |-> DetailRows(potential_removals, R)]

(***************************************************************************)
(* Audit trail (table audit_events)                                        *)
(***************************************************************************)
\* AUTOINCREMENT: one more than the largest id the table has held; rows are
\* never deleted, so that is the id of the last row.
NextId(rows) == IF rows = <<>> THEN 1 ELSE rows[Len(rows)].id + 1

\* log_audit_event writing over the stored row instead of adding one.
log_audit_event_replace(rows, timestamp, user_id, target_file, ips_revoked) ==
    <<[id |-> 1, timestamp |-> timestamp, action |-> "Access Revocation Audit",
       user_id |-> user_id, target_file |-> target_file,
       ips_revoked |-> ips_revoked]>>

\* timestamp is the reading of the local wall clock at the call; ISO-8601
\* texts of one width compare as the instants they denote.
log_audit_event(rows, timestamp, user_id, target_file, ips_revoked) ==
    Append(rows, [id |-> NextId(rows),
                  timestamp |-> timestamp,
                  action |-> "Access Revocation Audit",
                  user_id |-> user_id,
                  target_file |-> target_file,
                  ips_revoked |-> ips_revoked])

\* df.drop(columns=['id'])
DropId(row) ==
    [timestamp |-> row.timestamp, action |-> row.action, user_id |-> row.user_id,
     target_file |-> row.target_file, ips_revoked |-> row.ips_revoked]

\* The query with ORDER BY timestamp ASC.
OrderByTimestampAsc(rows) ==
    {p \in [1..Len(rows) -> 1..Len(rows)] :
        /\ \A i, j \in 1..Len(rows) : i # j => p[i] # p[j]
        /\ \A i \in 1..(Len(rows) - 1) :
              rows[p[i]].timestamp <= rows[p[i + 1]].timestamp}

\* The orders SELECT * ... ORDER BY timestamp DESC may return the rows in:
\* timestamps never increase down the result, rows of equal timestamp come
\* in any order.
OrderByTimestampDesc(rows) ==
    {p \in [1..Len(rows) -> 1..Len(rows)] :
        /\ \A i, j \in 1..Len(rows) : i # j => p[i] # p[j]
        /\ \A i \in 1..(Len(rows) - 1) :
              rows[p[i]].timestamp >= rows[p[i + 1]].timestamp}

\* The data frames load_audit_logs may return.
load_audit_logs(rows) ==
    {[i \in 1..Len(rows) |-> DropId(rows[p[i]])] : p \in OrderByTimestampDesc(rows)}

(***************************************************************************)
(* The page script.  Streamlit runs it from top to bottom once per user    *)
(* interaction; st.session_state and the table outlive a run, the widgets  *)
(* keep their values, and everything else is local to the run.             *)
(***************************************************************************)
\* uploaded_file is None
None == [none |-> TRUE]

\* Text of a Python literal.
TXT == <<".", "t", "x", "t">>
UPDATED_TXT == <<"_", "u", "p", "d", "a", "t", "e", "d", ".", "t", "x", "t">>
AUDIT_PDF == <<"_", "A", "u", "d", "i", "t", "_", "R", "e", "p", "o", "r", "t", ".", "p", "d", "f">>

\* s.replace(old, "")
RECURSIVE RemoveAll(_, _)
RemoveAll(s, old) ==
    IF Len(s) < Len(old) THEN s
    ELSE IF SubSeq(s, 1, Len(old)) = old
         THEN RemoveAll(SubSeq(s, Len(old) + 1, Len(s)), old)
    ELSE <<Head(s)>> \o RemoveAll(Tail(s), old)

\* st.session_state[key] = value
Assign(ss, key, value) ==
    [k \in DOMAIN ss \cup {key} |-> IF k = key THEN value ELSE ss[k]]

\* if 'success' not in st.session_state: st.session_state['success'] = False
InitSuccess(ss) ==
    IF "success" \in DOMAIN ss THEN ss ELSE Assign(ss, "success", FALSE)

\* remove_list_clean: the revoke request, normalized.
NonEmptyStripped(pieces) == {Strip(pieces[i]) : i \in DOMAIN pieces} \ {<<>>}

\* remove_list_clean without the filter "if item.strip()".
remove_list_clean_keep_empty(remove_input) ==
    {Strip(ReSplit(remove_input)[i]) : i \in DOMAIN ReSplit(remove_input)}

remove_list_clean(remove_input) == NonEmptyStripped(ReSplit(remove_input))

\* invalid_ips looking at one entry only, the first in sorted order.
invalid_ips_first_only(clean) ==
    {ip \in clean : ~is_valid_ip(ip) /\ \A other \in clean \ {ip} : StrLess(ip, other)}

invalid_ips(clean) == {ip \in clean : ~is_valid_ip(ip)}

potential_removals(original_ips_loaded, clean) == original_ips_loaded \cap clean

\* Locals of a run that the later sections and the checks read.
NoLocals ==
    [original_ips_loaded |-> {}, remove_list_clean |-> {}, invalid_ips |-> {},
     potential_removals |-> {}, ips_to_keep |-> {}, original_ips |-> {},
     updated_ips |-> {}, updated_content |-> <<>>]

\* No download button.
NoButton == [data |-> <<>>, file_name |-> <<>>]

\* Section 5: the download buttons, when the success flag is set.
DownloadTxt(ss) ==
    IF ss.success
    THEN [data |-> ss.updated_content_txt, file_name |-> ss.file_name_base \o UPDATED_TXT]
    ELSE NoButton

DownloadPdf(ss) ==
    IF ss.success
    THEN [data |-> ss.pdf_report, file_name |-> ss.file_name_base \o AUDIT_PDF]
    ELSE NoButton

\* The page of a run that reaches sections 5 and 6.
Page(message, button, ss) ==
    [message |-> message, invalid_ips |-> {}, button |-> button,
     exception |-> FALSE, success |-> ss.success,
     download_txt |-> DownloadTxt(ss), download_pdf |-> DownloadPdf(ss),
     history |-> TRUE]

\* The page of a run that st.stop() or an exception ends before section 5.
StoppedPage(message, shown_invalid, button, exception) ==
    [message |-> message, invalid_ips |-> shown_invalid, button |-> button,
     exception |-> exception, success |-> FALSE,
     download_txt |-> NoButton, download_pdf |-> NoButton, history |-> FALSE]

\* What a run leaves behind.
Result(ss, rows, outcome, locals, page, rerun) ==
    [session_state |-> ss, audit_events |-> rows, outcome |-> outcome,
     locals |-> locals, page |-> page, rerun |-> rerun]

\* The message of section 4.3.
AuditMessage(removals) ==
    IF removals # {} THEN "warning_audit" ELSE "info_no_match"

\* Lines 304-310: the artifacts are cached, the flag is set, st.rerun().
CacheAndRerun(ss, rows, w, L, pdf_buffer) ==
    Result(Assign(Assign(Assign(Assign(ss,
               "updated_content_txt", L.updated_content),
               "pdf_report", pdf_buffer),
               "file_name_base", RemoveAll(w.file.name, TXT)),
               "success", TRUE),
           rows, "done", L, StoppedPage(AuditMessage(L.potential_removals), {}, TRUE, FALSE),
           TRUE)

\* The handler with lines 304-307 placed before the call of log_audit_event:
\* the artifacts are cached when the write fails.
LedgerWriteFailedAfterCaching(ss, rows, w, L) ==
    Result(Assign(Assign(Assign(Assign(ss,
               "updated_content_txt", L.updated_content),
               "pdf_report", generate_pdf_report(L.original_ips, L.potential_removals,
                                                 L.updated_ips, w.lang)),
               "file_name_base", RemoveAll(w.file.name, TXT)),
               "success", TRUE),
           rows, "ledger_error", L,
           StoppedPage(AuditMessage(L.potential_removals), {}, TRUE, TRUE), FALSE)

\* log_audit_event raises: nothing catches it, the run ends at line 301 and
\* the page shows the exception.
LedgerWriteFailed(ss, rows, w, L) ==
    Result(ss, rows, "ledger_error", L,
           StoppedPage(AuditMessage(L.potential_removals), {}, TRUE, TRUE), FALSE)

\* Lines 290-310, with the lists of the report in L.
ReportAndLog(ss, rows, w, L) ==
    IF ~w.db_ok
    THEN LedgerWriteFailed(ss, rows, w, L)
    ELSE CacheAndRerun(ss,
                       log_audit_event(rows, w.timestamp, "admin_default", w.file.name,
                                       Cardinality(L.potential_removals)),
                       w, L,
                       generate_pdf_report(L.original_ips, L.potential_removals,
                                           L.updated_ips, w.lang))

\* Lines 287-288, with updated_content in L.
ReportLists(ss, rows, w, L) ==
    ReportAndLog(ss, rows, w,
                 [L EXCEPT !.original_ips = get_ips_from_content(w.file.content, w.delim),
                           !.updated_ips = get_ips_from_content(L.updated_content, NL)])

\* The button handler, lines 278-310.
ConfirmHandler(ss, rows, w, L) ==
    ReportLists(ss, rows, w,
                [L EXCEPT !.ips_to_keep =
                              ips_to_keep(w.file.content, L.remove_list_clean, w.delim),
                          !.updated_content =
                              update_content(w.file.content, L.remove_list_clean, w.delim)])

\* Lines 267-310: the request is valid.
Audit(ss, rows, w, L) ==
    IF w.click
    THEN ConfirmHandler(ss, rows, w, L)
    ELSE Result(ss, rows, "preview", L,
                Page(AuditMessage(L.potential_removals), TRUE, ss), FALSE)

\* Lines 260-310: the request is not empty.
Validate(ss, rows, w, L) ==
    IF L.invalid_ips # {}
    THEN Result(Assign(ss, "success", FALSE), rows, "error_validation", L,
                StoppedPage("error_validation", L.invalid_ips, FALSE, FALSE), FALSE)
    ELSE Audit(ss, rows, w,
               [L EXCEPT !.potential_removals =
                             potential_removals(L.original_ips_loaded, L.remove_list_clean)])

\* Lines 255-310: some text is entered.
CheckRequest(ss, rows, w, L) ==
    IF L.remove_list_clean = {}
    THEN Result(Assign(ss, "success", FALSE), rows, "error_empty", L,
                StoppedPage("error_empty", {}, FALSE, FALSE), FALSE)
    ELSE Validate(ss, rows, w, [L EXCEPT !.invalid_ips = invalid_ips(L.remove_list_clean)])

\* Lines 238-310: a file is uploaded.
WithFile(ss, rows, w, L) ==
    IF w.text = <<>>
    THEN Result(ss, rows, "no_input", L, Page("", FALSE, ss), FALSE)
    ELSE CheckRequest(ss, rows, w,
                      [L EXCEPT !.remove_list_clean = remove_list_clean(w.text)])

\* Lines 233-332 with the session state initialized.
Main(ss, rows, w) ==
    IF w.file = None
    THEN Result(ss, rows, "no_file", NoLocals, Page("", FALSE, ss), FALSE)
    ELSE WithFile(ss, rows, w,
                  [NoLocals EXCEPT !.original_ips_loaded =
                                       get_ips_from_content(w.file.content, w.delim)])

\* One run of the script with the widget values w.  w.click: the confirm
\* button reports a click in this run; w.db_ok: the INSERT and its commit
\* succeed; w.timestamp: the clock reading log_audit_event takes.
Script(ss_in, rows, w) == Main(InitSuccess(ss_in), rows, w)

(***************************************************************************)
(* State                                                                   *)
(***************************************************************************)
VARIABLES
    uploaded_file,   \* value of the file uploader: None or [name, content]
    remove_input,    \* value of the text area (key "remove_input")
    delimiter_value, \* delimiter chosen in the sidebar
    lang_selection,  \* language chosen in the sidebar
    session_state,   \* st.session_state, the keys the script sets
    audit_events,    \* rows of table audit_events, in insertion order
    run,             \* how the run of the last interaction ended, and its locals
    ui               \* the page as the last run left it, with the history table

vars == <<uploaded_file, remove_input, delimiter_value, lang_selection,
          session_state, audit_events, run, ui>>

(***************************************************************************)
(* Bounds and inputs                                                       *)
(***************************************************************************)
\* Rows the table may hold.
MaxLedger == 2
\* Clock readings are 0..MaxTime.  datetime.now() is the local wall clock:
\* two calls may read the same value, and a later call may read an earlier one
\* (a clock adjustment, the end of daylight saving time).
MaxTime == 1
\* Length of the file contents of SpecPure.
MaxLen == 4

Times == 0..MaxTime

IP1 == <<"1", ".", "1", ".", "1", ".", "1">>
IP2 == <<"2", ".", "2", ".", "2", ".", "2">>
IP3 == <<"3", ".", "3", ".", "3", ".", "3">>
IP9 == <<"9", ".", "9", ".", "9", ".", "9">>

\* Uploads of the session: a list with one address per line, and a
\* comma-separated list with padding and a repeated entry.
Files ==
    {[name |-> <<"a">> \o TXT, content |-> IP1 \o <<NL>> \o IP2 \o <<NL>> \o IP3],
     [name |-> <<"b">> \o TXT, content |-> IP2 \o <<COMMA, SP>> \o IP1 \o <<COMMA>> \o IP2]}

\* Revoke texts of the session.
Texts ==
    {<<>>,                                  \* nothing typed
     <<SP, COMMA, NL>>,                     \* separators and blanks only
     IP2 \o <<COMMA>> \o <<"a", "b", "c">>, \* one entry is no address
     <<SP>> \o IP3 \o <<SP, COMMA>> \o IP3 \o <<NL>> \o IP9, \* valid, padded, repeated
     IP2 \o <<COMMA>> \o IP1 \o <<CR, NL>> \o IP3}           \* the whole first list

(***************************************************************************)
(* Interactions                                                            *)
(***************************************************************************)
\* The history section: the table of load_audit_logs when section 6 runs.
HistoryTables(page, rows) ==
    IF page.history THEN load_audit_logs(rows) ELSE {<<>>}

\* One interaction: the widgets take their new values and the script runs;
\* after st.rerun() it runs once more, with no click.
Widgets(file, text, delim, lang, click, db_ok, timestamp) ==
    [file |-> file, text |-> text, delim |-> delim, lang |-> lang,
     click |-> click, db_ok |-> db_ok, timestamp |-> timestamp]

Interact(ss, file, text, delim, lang, click, db_ok, timestamp) ==
    \E r1 \in {Script(ss, audit_events,
                      Widgets(file, text, delim, lang, click, db_ok, timestamp))} :
    \E r2 \in {IF r1.rerun
               THEN Script(r1.session_state, r1.audit_events,
                           Widgets(file, text, delim, lang, FALSE, TRUE, timestamp))
               ELSE r1} :
       /\ uploaded_file' = file
       /\ remove_input' = text
       /\ delimiter_value' = delim
       /\ lang_selection' = lang
       /\ session_state' = r2.session_state
       /\ audit_events' = r2.audit_events
       /\ run' = [outcome |-> r1.outcome, locals |-> r1.locals]
       /\ \E df \in HistoryTables(r2.page, r2.audit_events) :
             ui' = [page |-> r2.page, audit_df |-> df]

\* The operator puts a file in the uploader.
Upload(f) ==
    /\ f # uploaded_file
    /\ Interact(session_state, f, remove_input, delimiter_value,
                lang_selection, FALSE, TRUE, 0)

\* The operator clears the uploader.  The text area is not rendered without
\* a file, and Streamlit drops the value of a widget a run does not render.
RemoveFile ==
    /\ uploaded_file # None
    /\ Interact(session_state, None, <<>>, delimiter_value,
                lang_selection, FALSE, TRUE, 0)

\* The operator edits the revoke text; the text area exists once a file is
\* uploaded.
EditText(t) ==
    /\ uploaded_file # None
    /\ t # remove_input
    /\ Interact(session_state, uploaded_file, t, delimiter_value,
                lang_selection, FALSE, TRUE, 0)

SelectDelimiter(d) ==
    /\ d # delimiter_value
    /\ Interact(session_state, uploaded_file, remove_input, d,
                lang_selection, FALSE, TRUE, 0)

\* The labels of the delimiter box and of the uploader, and the options of
\* the delimiter box, come from T: in the other language they are other
\* widgets, which start empty (index 0, no file), and the text area goes
\* with the file.
SelectLanguage(l) ==
    /\ l # lang_selection
    /\ Interact(session_state, None, <<>>, delimiter_values[1], l,
                FALSE, TRUE, 0)

\* The operator clicks the confirm button, which the page shows.
Confirm(times, limit) ==
    /\ ui.page.button
    /\ Len(audit_events) < limit
    /\ \E db_ok \in BOOLEAN, timestamp \in times :
          Interact(session_state, uploaded_file, remove_input,
                   delimiter_value, lang_selection, TRUE, db_ok, timestamp)

\* The operator clicks a download button, which reruns the script.
Download ==
    /\ ui.page.success
    /\ Interact(session_state, uploaded_file, remove_input,
                delimiter_value, lang_selection, FALSE, TRUE, 0)

\* The page is loaded again: a new session, with empty session state and the
\* widgets at their defaults; the table is on disk and stays.
NewSession ==
    \E ss \in {<<>>} :
       Interact(ss, None, <<>>, delimiter_values[1], Languages[1], FALSE, TRUE, 0)

\* The first run of the first session, on an empty table.
FirstRun ==
    Script(<<>>, <<>>,
           Widgets(None, <<>>, delimiter_values[1], Languages[1], FALSE, TRUE, 0))

Init ==
    /\ uploaded_file = None
    /\ remove_input = <<>>
    /\ delimiter_value = delimiter_values[1]
    /\ lang_selection = Languages[1]
    /\ session_state = FirstRun.session_state
    /\ audit_events = <<>>
    /\ run = [outcome |-> FirstRun.outcome, locals |-> FirstRun.locals]
    /\ ui = [page |-> FirstRun.page, audit_df |-> <<>>]

\* A session.  Between two confirmations the clock has advanced.
Next ==
    \/ \E f \in Files : Upload(f)
    \/ RemoveFile
    \/ \E t \in Texts : EditText(t)
    \/ \E d \in Range(delimiter_values) : SelectDelimiter(d)
    \/ \E l \in Range(Languages) : SelectLanguage(l)
    \/ Confirm({Len(audit_events)}, MaxLedger)
    \/ Download
    \/ NewSession

Spec == Init /\ [][Next]_vars

(***************************************************************************)
(* The audit trail under any clock: the session keeps to valid requests    *)
(* and the default sidebar, and every confirmation reads any value of the  *)
(* clock.                                                                  *)
(***************************************************************************)
LedgerTexts == {t \in Texts : t # <<>> /\ remove_list_clean(t) # {}
                                       /\ invalid_ips(remove_list_clean(t)) = {}}

NextLedger ==
    \/ \E f \in Files : Upload(f)
    \/ \E t \in LedgerTexts : EditText(t)
    \/ Confirm(Times, MaxLedger)
    \/ Download

SpecLedger == Init /\ [][NextLedger]_vars

(***************************************************************************)
(* One confirmation on every small file content: the session has chosen   *)
(* a language and a delimiter, uploaded a file and entered a valid         *)
(* request; the operator confirms.                                         *)
(***************************************************************************)
PureAlphabet == {":", "1", COMMA, NL, SP}

Contents == UNION {[1..k -> PureAlphabet] : k \in 0..MaxLen}

PureTexts == {<<":", ":">>, <<":", ":", "1", COMMA, "1", ":", ":">>}

InitPure ==
    \E c \in Contents, t \in PureTexts, d \in Range(delimiter_values),
       l \in Range(Languages) :
    \E f \in {[name |-> <<"a">> \o TXT, content |-> c]} :
    \E r \in {Script(<<>>, <<>>, Widgets(f, t, d, l, FALSE, TRUE, 0))} :
       /\ uploaded_file = f
       /\ remove_input = t
       /\ delimiter_value = d
       /\ lang_selection = l
       /\ session_state = r.session_state
       /\ audit_events = <<>>
       /\ run = [outcome |-> r.outcome, locals |-> r.locals]
       /\ ui = [page |-> r.page, audit_df |-> <<>>]

NextPure == Confirm({0}, 1)

SpecPure == InitPure /\ [][NextPure]_vars

(***************************************************************************)
(* Properties                                                              *)
(***************************************************************************)
\* The artifacts the session state caches.
Cached(ss) == [k \in DOMAIN ss \ {"success"} |-> ss[k]]

HasArtifacts(ss) == "updated_content_txt" \in DOMAIN ss

\* The sets of the reconciliation of the current file with the current text.
Original == get_ips_from_content(uploaded_file.content, delimiter_value)
Requested == remove_list_clean(remove_input)
Matched == Original \cap Requested

\* C1: after a confirmed action on a valid, non-empty request, the retained
\* set (the one serialized into the updated list) and the matched set
\* (original /\ requested) partition the original set.
C1_Partition ==
    run.outcome = "done" =>
        /\ run.locals.potential_removals = Matched
        /\ run.locals.ips_to_keep \cup run.locals.potential_removals = Original
        /\ run.locals.ips_to_keep \cap run.locals.potential_removals = {}
        /\ session_state.updated_content_txt = Join(Sorted(run.locals.ips_to_keep), <<NL>>)

C1_Witness ==
    /\ run.outcome = "done"
    /\ run.locals.potential_removals # {}
    /\ run.locals.ips_to_keep # {}

\* The text has an entry that is no address.
HasInvalidEntry(text) == \E ip \in remove_list_clean(text) : ~is_valid_ip(ip)

\* C2: a step that leaves a file and a request with an invalid entry ends in
\* the validation error: the invalid entries are shown, no row is appended,
\* no artifact is cached and no download or confirm button is on the page.
C2_InvalidRequestAborts ==
    [][(uploaded_file' # None /\ HasInvalidEntry(remove_input')) =>
          /\ run'.outcome = "error_validation"
          /\ ui'.page.message = "error_validation"
          /\ ui'.page.invalid_ips = {ip \in remove_list_clean(remove_input') : ~is_valid_ip(ip)}
          /\ audit_events' = audit_events
          /\ Cached(session_state') = Cached(session_state)
          /\ ~session_state'.success
          /\ ~ui'.page.success
          /\ ui'.page.download_txt.file_name = <<>>
          /\ ui'.page.download_pdf.file_name = <<>>
          /\ ~ui'.page.button]_vars

C2_Witness ==
    /\ run.outcome = "error_validation"
    /\ ui.page.invalid_ips # {}
    /\ HasArtifacts(session_state)
    /\ Len(audit_events) > 0

\* The text holds nothing but request delimiters and whitespace.
OnlySeparators(text) == \A i \in DOMAIN text : text[i] \in {COMMA, NL, CR, SP, TAB}

\* C3 as stated: with a file uploaded, a request that is empty after
\* normalization is reported with the empty-request error and changes
\* neither the session state nor the ledger.
C3_EmptyRequestNoChange ==
    [][(uploaded_file' # None /\ OnlySeparators(remove_input')) =>
          /\ ui'.page.message = "error_empty"
          /\ session_state' = session_state
          /\ audit_events' = audit_events]_vars

\* C3 amended: a text of delimiters and whitespace only is reported with the
\* empty-request error, appends no row, leaves the cached artifacts as they
\* were and leaves the success flag cleared; an empty text is reported as
\* nothing and changes neither the session state nor the ledger.
C3_EmptyRequestClearsFlag ==
    [][(uploaded_file' # None /\ OnlySeparators(remove_input')) =>
          /\ audit_events' = audit_events
          /\ Cached(session_state') = Cached(session_state)
          /\ IF remove_input' = <<>>
             THEN /\ ui'.page.message = ""
                  /\ session_state' = session_state
             ELSE /\ run'.outcome = "error_empty"
                  /\ ui'.page.message = "error_empty"
                  /\ ~session_state'.success
                  /\ ~ui'.page.success]_vars

C3_Witness ==
    /\ run.outcome = "error_empty"
    /\ ui.page.message = "error_empty"
    /\ HasArtifacts(session_state)
    /\ ~session_state.success

\* The stored rows in reverse insertion order, without the id column.
NewestFirst == [i \in 1..Len(audit_events) |->
                   DropId(audit_events[Len(audit_events) + 1 - i])]

IdsIncrease ==
    \A i, j \in 1..Len(audit_events) : i < j => audit_events[i].id < audit_events[j].id

Bijections(n) == {p \in [1..n -> 1..n] : \A i, j \in 1..n : i # j => p[i] # p[j]}

\* C4 as stated: the history table holds every stored event, the one
\* appended last first, and the ids grow with insertion.
C4_NewestAppendedFirst ==
    ui.page.history => (ui.audit_df = NewestFirst /\ IdsIncrease)

\* C4 amended: the history table holds every stored event exactly once,
\* ordered by timestamp, latest first, events of equal timestamp in any
\* order; it is newest-appended first when each append read a later clock
\* value than the one before; the ids grow with insertion.
C4_LatestTimestampFirst ==
    ui.page.history =>
        /\ Len(ui.audit_df) = Len(audit_events)
        /\ \E p \in Bijections(Len(audit_events)) :
              \A i \in 1..Len(audit_events) : ui.audit_df[i] = DropId(audit_events[p[i]])
        /\ \A i \in 1..(Len(ui.audit_df) - 1) :
              ui.audit_df[i].timestamp >= ui.audit_df[i + 1].timestamp
        /\ (\A i \in 1..(Len(audit_events) - 1) :
               audit_events[i].timestamp < audit_events[i + 1].timestamp)
           => ui.audit_df = NewestFirst
        /\ IdsIncrease

C4_Witness ==
    /\ ui.page.history
    /\ Len(audit_events) >= 2
    /\ Len(ui.audit_df) = Len(audit_events)
    /\ \E i \in 1..(Len(audit_events) - 1) :
          audit_events[i].timestamp >= audit_events[i + 1].timestamp

\* C5: a step appends exactly one row, after the rows already stored, when
\* it is a confirmed action that ran to its end, and that row counts the
\* matched addresses of that action (none included); every other step,
\* a confirmation whose write failed included, leaves the stored rows as
\* they are.
C5_OneEventPerConfirmedAction ==
    [][IF run'.outcome = "done"
       THEN /\ Len(audit_events') = Len(audit_events) + 1
            /\ SubSeq(audit_events', 1, Len(audit_events)) = audit_events
            /\ audit_events'[Len(audit_events')].ips_revoked = Cardinality(Matched)
            /\ audit_events'[Len(audit_events')].target_file = uploaded_file.name
            /\ audit_events'[Len(audit_events')].user_id = "admin_default"
       ELSE audit_events' = audit_events]_vars

C5_Witness ==
    /\ run.outcome = "done"
    /\ Len(audit_events) >= 2
    /\ audit_events[Len(audit_events)].ips_revoked = 0
    /\ audit_events[1].ips_revoked > 0

\* C6: after a confirmed action, parsing the updated list with the newline
\* delimiter gives back the retained set, and the same holds of the
\* serialization of the original set, whatever delimiter it was parsed with.
C6_RoundTrip ==
    run.outcome = "done" =>
        /\ run.locals.updated_ips = run.locals.ips_to_keep
        /\ get_ips_from_content(Join(Sorted(Original), <<NL>>), NL) = Original

C8_SummaryCounts ==
    run.outcome = "done" =>
        /\ session_state.pdf_report.summary_data[1][2] = Cardinality(Original)
        /\ session_state.pdf_report.summary_data[2][2] = Cardinality(Matched)
        /\ session_state.pdf_report.summary_data[3][2] = Cardinality(run.locals.ips_to_keep)
        /\ session_state.pdf_report.summary_data[1][2] =
              session_state.pdf_report.summary_data[2][2]
              + session_state.pdf_report.summary_data[3][2]

\* C9: below its header row the detail table of the report of a confirmed
\* action, the one offered for download, has one row per matched address,
\* in increasing order, each with the revoked label of the language; with
\* nothing matched it has the placeholder row and nothing else.
C9_DetailTable ==
    run.outcome = "done" =>
        /\ ui.page.success
        /\ ui.page.download_pdf.data = session_state.pdf_report
        /\ session_state.pdf_report.ip_list_header = ReportLabels(lang_selection).ip_list_header
        /\ IF Matched = {}
           THEN session_state.pdf_report.ip_data =
                    << <<NotApplicable, ReportLabels(lang_selection).status_maintained>> >>
           ELSE /\ Len(session_state.pdf_report.ip_data) = Cardinality(Matched)
                /\ {session_state.pdf_report.ip_data[i][1] :
                       i \in DOMAIN session_state.pdf_report.ip_data} = Matched
                /\ \A i \in DOMAIN session_state.pdf_report.ip_data :
                      session_state.pdf_report.ip_data[i][2] =
                          ReportLabels(lang_selection).status_removed
                /\ \A i \in 1..(Len(session_state.pdf_report.ip_data) - 1) :
                      StrLess(session_state.pdf_report.ip_data[i][1],
                              session_state.pdf_report.ip_data[i + 1][1])

C9_Witness ==
    /\ run.outcome = "done"
    /\ Cardinality(Matched) >= 2
    /\ Len(session_state.pdf_report.ip_data) >= 2

\* C10: when the download buttons are on the page, a file is uploaded, the
\* request is valid and not empty, and the cached list, report and name are
\* those of reconciling that file with that request.
C10_DownloadsAreCurrent ==
    ui.page.success =>
        /\ HasArtifacts(session_state)
        /\ uploaded_file # None
        /\ Requested # {}
        /\ ~HasInvalidEntry(remove_input)
        /\ ui.page.download_txt.data = update_content(uploaded_file.content, Requested,
                                                      delimiter_value)
        /\ session_state.file_name_base = RemoveAll(uploaded_file.name, TXT)
        /\ session_state.pdf_report.summary_data[2][2] = Cardinality(Matched)

====
